---- MODULE Spec2Model ----
(***************************************************************************)
(* StringWiggler: the lifecycle / shutdown protocol shared by the three    *)
(* components (Logger, Window, Engine), the callback wiring done by the    *)
(* composition root, and the Logger's queue and writer thread.             *)
(*                                                                         *)
(* Every component call is a frame on the calling thread's stack; a        *)
(* callback that calls into a peer pushes the peer's frame on top, so a    *)
(* nested call runs to completion before its caller continues, exactly as  *)
(* a C function-pointer call does. A call and the test of m_dying that     *)
(* opens the callee are one step: the call itself is local to the thread.  *)
(***************************************************************************)
EXTENDS Integers, Sequences, FiniteSets

\* ---- bound of the model ---------------------------------------------------
\* Size of one scenario: slots the root wires + native events the window
\* pump delivers + calls made by the second thread.
MaxOps == 2
\* Number of physical devices the Vulkan instance can enumerate.
MaxDevices == 2
\* Number of native events one iteration of the frame loop finds pending.
MaxBatch == 2

\* ---- the program's fixed sets ---------------------------------------------
Comps == {"Logger", "Window", "Engine"}
Threads == {"main", "prod", "writer"}
Ops == {"write", "render", "run"}
NULL == "null"

\* Initialization order, and the root's teardown order.
InitOrder == <<"Logger", "Window", "Engine">>
TeardownOrder == <<"Engine", "Window", "Logger">>

\* The two-phase slots in the order the root wires them.
WireOrder == << <<"Logger", "about">>, <<"Logger", "stopped">>,
                <<"Window", "about">>, <<"Window", "stopped">>,
                <<"Engine", "about">>, <<"Engine", "stopped">> >>

VARIABLES
    m_dying,                \* [Comps -> BOOLEAN]: std::atomic<bool> m_dying
    stopped,                \* [Comps -> BOOLEAN]: destroy() has reached step 5
    m_on_is_about_to_stop,  \* [Comps -> Comps \cup {NULL}]: peer the handler destroys
    m_on_has_stopped,       \* [Comps -> Comps \cup {NULL}]
    m_on_log,               \* [Comps -> BOOLEAN]: onLog wired to Logger::write
    res,                    \* [Comps -> {"none","held","released"}]: owned resources
    stack,                  \* [Threads -> Seq(frame)]: call stack, top first
    queue,                  \* the Logger's FIFO of queued messages
    cur,                    \* the message the writer thread has dequeued (0: none)
    storage,                \* messages appended to the log file, in order
    writer,                 \* "none" | "running" | "exited": m_writer_thread
    disk,                   \* "ok" | "failed"
    inflight,               \* GPU work submitted and not yet finished
    nextMsg,                \* the next message's number
    nOps,                   \* scenario budget used so far
    hist,                   \* [Comps -> Seq]: history of destroy() steps and callbacks
    enq,                    \* history: messages in the order they entered the queue
    lateInit,               \* history: components whose init/start was called when dying
    lateCall,               \* history: [Ops -> Nat], calls made on a dying component
    lateTouch,              \* history: such a call reached the body of its operation
    reentered,              \* history: components whose destroy() was called again
    wired,                  \* history: components whose onHasStopped slot was wired
    extent,                 \* the surface's current drawable extent
    swapchain,              \* presentation resources: [extent, flagged]
    gfx,                    \* history: counts of what render() did
    \* -- the platform composition roots (main of X11, Wayland, macOS) --
    platform,               \* "x11" | "wayland" | "macos": the build
    mainPc,                     \* main's position: a startup step, "loop", "cleanup", "exited"
    todo,                   \* the teardown calls main still makes before it ends
    ret,                    \* the status main is about to return
    status,                 \* the process's exit status ("none": still running)
    loggerUp,               \* app.logger was started
    native,                 \* the native windowing objects that exist
    handle,                 \* NativeWindowHandle: "empty" | "filled"
    rend,                   \* the Vulkan handles the renderer holds
    running,                \* app.running
    appLog,                 \* messages passed to logger.logWrite, in order
    called,                 \* history: startup steps called, with their results
    fatal,                  \* history: a fatal condition has occurred
    looped,                 \* history: an iteration of the frame loop has begun
    width,                  \* app.width  (Wayland)
    height,                 \* app.height (Wayland)
    enumerated,             \* the instance's devices in enumeration order: capable or not
    supported_devices,      \* std::vector<VkPhysicalDevice> supported_devices
    physical_device,        \* the device given to createLogicalDevice (0: none yet)
    created,                \* history: native objects in the order they were created
    released,               \* history: native objects in the order they were released
    closeSeen,              \* history: a close request has been delivered
    persisted,              \* how many of the messages of appLog are in the log file
    loggerStopped,          \* the logger was stopped (queue drained, writer joined)
    configured,             \* app.configured (Wayland)
    displayError            \* the Wayland display connection has failed

protoVars == <<m_dying, stopped, m_on_is_about_to_stop, m_on_has_stopped, m_on_log, res,
               stack, queue, cur, storage, writer, disk, inflight, nextMsg, nOps, hist,
               enq, lateInit, lateCall, lateTouch, reentered, wired, extent, swapchain,
               gfx>>
gfxVars == <<extent, swapchain, gfx>>
appVars == <<platform, mainPc, todo, ret, status, loggerUp, native, handle, rend, running,
             appLog, called, fatal, looped, width, height, enumerated, supported_devices,
             physical_device, created, released, closeSeen, persisted, loggerStopped,
             configured, displayError>>
cfgVars == <<configured, displayError>>
winVars == <<created, released>>
logVars == <<persisted, loggerStopped>>
devVars == <<enumerated, supported_devices, physical_device>>
vars == <<protoVars, appVars>>

\* ---- helpers --------------------------------------------------------------
\* A frame of a thread's own program (root, prod, writer).
Frame(op, c, pc, arg) == [op |-> op, c |-> c, pc |-> pc, arg |-> arg, late |-> FALSE]

\* A frame of a component operation: late records whether the component was
\* already dying when the call was made.
Call(op, c, pc, arg) == [op |-> op, c |-> c, pc |-> pc, arg |-> arg, late |-> m_dying[c]]

Top(t) == Head(stack[t])
At(t, op, pc) == stack[t] # <<>> /\ Top(t).op = op /\ Top(t).pc = pc

\* The caller's frame as it continues after a call.
Cont(t, pc) == [Top(t) EXCEPT !.pc = pc]
ContArg(t, pc, arg) == [Top(t) EXCEPT !.pc = pc, !.arg = arg]

Return(t) == [stack EXCEPT ![t] = Tail(@)]
Goto(t, pc) == [stack EXCEPT ![t] = <<Cont(t, pc)>> \o Tail(@)]
GotoArg(t, pc, arg) == [stack EXCEPT ![t] = <<ContArg(t, pc, arg)>> \o Tail(@)]

Count(s, x) == Cardinality({i \in DOMAIN s : s[i] = x})
Log(c, entries) == [hist EXCEPT ![c] = @ \o entries]
InDestroy(t, c) == \E i \in DOMAIN stack[t] : stack[t][i].op = "destroy" /\ stack[t][i].c = c

\* The tri-state lifecycle of the specification, read off the m_dying flag.
Lifecycle(c) ==
    IF ~m_dying[c] THEN "Active" ELSE IF stopped[c] THEN "Stopped" ELSE "Dying"

\* The drawable extents told apart: zero in a dimension (minimized), or one of
\* two sizes.
Extents == {"zero", "small", "large"}
NoSwapchain == [extent |-> "none", flagged |-> FALSE]

ProtoInit ==
    /\ m_dying = [c \in Comps |-> FALSE]
    /\ stopped = [c \in Comps |-> FALSE]
    /\ m_on_is_about_to_stop = [c \in Comps |-> NULL]
    /\ m_on_has_stopped = [c \in Comps |-> NULL]
    /\ m_on_log = [c \in Comps |-> FALSE]
    /\ res = [c \in Comps |-> "none"]
    /\ stack = [t \in Threads |->
                  CASE t = "main" -> <<Frame("root", NULL, "wire", 1)>>
                    [] t = "prod" -> <<Frame("prod", NULL, "idle", 0)>>
                    [] t = "writer" -> <<Frame("writer", "Logger", "loop", 0)>>]
    /\ queue = <<>>
    /\ cur = 0
    /\ storage = <<>>
    /\ writer = "none"
    /\ disk = "ok"
    /\ inflight = 0
    /\ nextMsg = 1
    /\ nOps = 0
    /\ hist = [c \in Comps |-> <<>>]
    /\ enq = <<>>
    /\ lateInit = {}
    /\ lateCall = [op \in Ops |-> 0]
    /\ wired = {}
    /\ lateTouch = FALSE
    /\ reentered = {}
    /\ extent = "small"
    /\ swapchain = NoSwapchain
    /\ gfx = [skipped |-> 0, stale |-> 0, frames |-> 0, represent |-> 0,
              flaggedUse |-> FALSE, errors |-> 0]

\* ---- the composition roots: fixed sets ----------------------------------------
Platforms == {"x11", "wayland", "macos"}

\* main's startup steps, in the order main makes them.
StartupOrderWindowFirst ==
    <<"createWindow", "logger.start", "renderer.init",
      "getSupportedPhysicalDevices", "createLogicalDevice">>
StartupOrder ==
    <<"logger.start", "createWindow", "renderer.init",
      "getSupportedPhysicalDevices", "createLogicalDevice">>

\* int width = 800; int height = 600;  and createWindow(app, 800, 600, ...)
DefaultWidth == 800
DefaultHeight == 600

\* AppData app;  (and, on macOS, what exists before [NSApp run])
AppInit(p) ==
    /\ platform = p
    /\ mainPc = StartupOrder[1]
    /\ todo = <<>>
    /\ ret = "none"
    /\ status = "none"
    /\ loggerUp = FALSE
    /\ native = {}
    /\ handle = "empty"
    /\ rend = {}
    /\ running = TRUE
    /\ appLog = <<>>
    /\ called = <<>>
    /\ fatal = FALSE
    /\ looped = FALSE
    /\ width = DefaultWidth
    /\ height = DefaultHeight
    /\ enumerated = <<>>
    /\ supported_devices = <<>>
    /\ physical_device = 0
    /\ created = <<>>
    /\ released = <<>>
    /\ closeSeen = FALSE
    /\ persisted = 0
    /\ loggerStopped = FALSE
    /\ configured = FALSE
    /\ displayError = FALSE

Init == ProtoInit /\ AppInit("x11")

\* ---- the m_dying flag -------------------------------------------------------
\* if (m_dying) return;   at the top of every operation
IsDyingNever(c) == FALSE
IsDying(c) == m_dying[c]

\* if (m_dying.exchange(true)) return;   the value the exchange read
WasDying(c) == m_dying[c]

\* The order of the statements of destroy() after step 1; a destroy frame's
\* arg is its position in this order.
DestroyOrderReleaseFirst == <<"s4a", "s4b", "s2", "s3", "s5", "s6">>
DestroyOrder == <<"s2", "s3", "s4a", "s4b", "s5", "s6">>

\* A destroy() that leaves out the release of step 4.
AdvanceSkipsRelease(t) ==
    LET n == IF DestroyOrder[Top(t).arg + 1] = "s4b" THEN Top(t).arg + 2
             ELSE Top(t).arg + 1
    IN ContArg(t, DestroyOrder[n], n)
Advance(t) == ContArg(t, DestroyOrder[Top(t).arg + 1], Top(t).arg + 1)
Proceed(t) == [stack EXCEPT ![t] = <<Advance(t)>> \o Tail(@)]

\* ---- calls ------------------------------------------------------------------
\* Thread t, whose current frame continues as cont, calls c.destroy() (stop(),
\* close()): step 1 of destroy(). A call that finds m_dying set returns at once.
CallDestroy(t, cont, c) ==
    /\ m_dying' = [m_dying EXCEPT ![c] = TRUE]
    /\ IF WasDying(c)
       THEN /\ stack' = [stack EXCEPT ![t] = <<cont>> \o Tail(@)]
            /\ reentered' = reentered \cup {c}
       ELSE /\ stack' = [stack EXCEPT ![t] = <<Call("destroy", c, DestroyOrder[1], 1), cont>> \o Tail(@)]
            /\ UNCHANGED reentered

\* Thread t calls operation op of component c: the operation tests m_dying
\* first and returns at once when it is set.
CallOp(t, cont, op, c, pc, arg) ==
    /\ IF IsDying(c)
       THEN stack' = [stack EXCEPT ![t] = <<cont>> \o Tail(@)]
       ELSE stack' = [stack EXCEPT ![t] = <<Call(op, c, pc, arg), cont>> \o Tail(@)]
    /\ lateCall' = IF m_dying[c] THEN [lateCall EXCEPT ![op] = @ + 1] ELSE lateCall

\* ---- wiring (composition root, before any component does work) ------------
\* window.setOnIsAboutToStop(handler, &peer) and friends: the handler the root
\* registers calls destroy()/stop() on the peer it was given.
SetOnIsAboutToStop(c, target) ==
    /\ At("main", "root", "wire")
    /\ Top("main").arg <= Len(WireOrder)
    /\ WireOrder[Top("main").arg] = <<c, "about">>
    /\ target # NULL => nOps < MaxOps
    /\ nOps' = IF target # NULL THEN nOps + 1 ELSE nOps
    /\ m_on_is_about_to_stop' = [m_on_is_about_to_stop EXCEPT ![c] = target]
    /\ stack' = GotoArg("main", "wire", Top("main").arg + 1)
    /\ UNCHANGED <<appVars, gfxVars, m_dying, stopped, m_on_has_stopped, m_on_log, res, queue, cur,
                   storage, writer, disk, inflight, nextMsg, hist, enq, lateInit,
                   lateCall, lateTouch, reentered, wired>>

SetOnHasStopped(c, target) ==
    /\ At("main", "root", "wire")
    /\ Top("main").arg <= Len(WireOrder)
    /\ WireOrder[Top("main").arg] = <<c, "stopped">>
    /\ target # NULL => nOps < MaxOps
    /\ nOps' = IF target # NULL THEN nOps + 1 ELSE nOps
    /\ m_on_has_stopped' = [m_on_has_stopped EXCEPT ![c] = target]
    /\ wired' = IF target # NULL THEN wired \cup {c} ELSE wired
    /\ stack' = GotoArg("main", "wire", Top("main").arg + 1)
    /\ UNCHANGED <<appVars, gfxVars, m_dying, stopped, m_on_is_about_to_stop, m_on_log, res, queue, cur,
                   storage, writer, disk, inflight, nextMsg, hist, enq, lateInit,
                   lateCall, lateTouch, reentered>>

\* window.setOnLog(onLog, &logger); engine.setOnLog(onLog, &logger);
SetOnLog ==
    /\ At("main", "root", "wire")
    /\ Top("main").arg = Len(WireOrder) + 1
    /\ m_on_log' = [c \in Comps |-> c # "Logger"]
    /\ stack' = GotoArg("main", "start", 1)
    /\ UNCHANGED <<appVars, gfxVars, m_dying, stopped, m_on_is_about_to_stop, m_on_has_stopped, res,
                   queue, cur, storage, writer, disk, inflight, nextMsg, nOps, hist,
                   enq, lateInit, lateCall, lateTouch, reentered, wired>>

\* ---- start / init -----------------------------------------------------------
\* Logger::start, Window creation, Engine::init: acquire the component's
\* resources (the Logger also spawns its writer thread) or fail. A call on a
\* dying component returns without doing anything; m_dying is never reset.
InitComp(c) ==
    /\ IF m_dying[c]
       THEN /\ lateInit' = lateInit \cup {c}
            /\ UNCHANGED <<res, writer>>
       ELSE /\ \E ok \in BOOLEAN :
                 /\ res' = [res EXCEPT ![c] = IF ok THEN "held" ELSE "none"]
                 /\ writer' = IF ok /\ c = "Logger" THEN "running" ELSE writer
            /\ UNCHANGED lateInit
    /\ UNCHANGED m_dying

\* ---- destroy() / stop() / close(): steps 2 to 5 -----------------------------
\* 2. if (m_on_is_about_to_stop) m_on_is_about_to_stop(user_data);
DestroyAbout(t) ==
    /\ At(t, "destroy", "s2")
    /\ LET c == Top(t).c
           h == m_on_is_about_to_stop[c] IN
        IF h # NULL
        THEN /\ hist' = Log(c, <<"s2", "about">>)
             /\ CallDestroy(t, Advance(t), h)
        ELSE /\ hist' = Log(c, <<"s2">>)
             /\ stack' = Proceed(t)
             /\ UNCHANGED <<m_dying, reentered>>
    /\ UNCHANGED <<appVars, gfxVars, stopped, m_on_is_about_to_stop, m_on_has_stopped, m_on_log, res,
                   queue, cur, storage, writer, disk, inflight, nextMsg, nOps, enq,
                   lateInit, lateCall, lateTouch, wired>>

\* 3. m_on_log = nullptr; m_on_is_about_to_stop = nullptr;
\*    ("disconnect most callbacks": m_on_has_stopped is kept for step 5)
ClearedAtStep3All(slot) == TRUE
ClearedAtStep3None(slot) == FALSE
ClearedAtStep3(slot) == slot \in {"log", "about"}

DestroyClear(t) ==
    /\ At(t, "destroy", "s3")
    /\ LET c == Top(t).c IN
        /\ m_on_log' = IF ClearedAtStep3("log")
                       THEN [m_on_log EXCEPT ![c] = FALSE] ELSE m_on_log
        /\ m_on_is_about_to_stop' = IF ClearedAtStep3("about")
                                    THEN [m_on_is_about_to_stop EXCEPT ![c] = NULL]
                                    ELSE m_on_is_about_to_stop
        /\ m_on_has_stopped' = IF ClearedAtStep3("stopped")
                               THEN [m_on_has_stopped EXCEPT ![c] = NULL]
                               ELSE m_on_has_stopped
        /\ hist' = Log(c, <<"s3">>)
    /\ stack' = Proceed(t)
    /\ UNCHANGED <<appVars, gfxVars, m_dying, stopped, res, queue, cur, storage, writer, disk, inflight,
                   nextMsg, nOps, enq, lateInit, lateCall, lateTouch, reentered, wired>>

\* 4a. Engine: vkDeviceWaitIdle(m_device); Logger: join the writer thread, which
\*     exits once it has flushed the queue. Both block the calling thread.
DestroyWait(t) ==
    /\ At(t, "destroy", "s4a")
    /\ LET c == Top(t).c IN
        /\ c = "Engine" => inflight = 0
        /\ c = "Logger" => writer # "running"
        /\ hist' = Log(c, <<"wait">>)
    /\ stack' = Proceed(t)
    /\ UNCHANGED <<appVars, gfxVars, m_dying, stopped, m_on_is_about_to_stop, m_on_has_stopped, m_on_log,
                   res, queue, cur, storage, writer, disk, inflight, nextMsg, nOps,
                   enq, lateInit, lateCall, lateTouch, reentered, wired>>

\* 4b. vkDestroyDevice(m_device, nullptr); ... / close the file / the surface
DestroyRelease(t) ==
    /\ At(t, "destroy", "s4b")
    /\ LET c == Top(t).c IN
        /\ res' = [res EXCEPT ![c] = "released"]
        /\ hist' = Log(c, <<"s4">>)
    /\ stack' = Proceed(t)
    /\ UNCHANGED <<appVars, gfxVars, m_dying, stopped, m_on_is_about_to_stop, m_on_has_stopped, m_on_log,
                   queue, cur, storage, writer, disk, inflight, nextMsg, nOps, enq,
                   lateInit, lateCall, lateTouch, reentered, wired>>

\* 5. if (m_on_has_stopped) m_on_has_stopped(user_data);
DestroyHasStopped(t) ==
    /\ At(t, "destroy", "s5")
    /\ LET c == Top(t).c
           h == m_on_has_stopped[c] IN
        /\ stopped' = [stopped EXCEPT ![c] = TRUE]
        /\ IF h # NULL
           THEN /\ hist' = Log(c, <<"s5", "stopped">>)
                /\ CallDestroy(t, Advance(t), h)
           ELSE /\ hist' = Log(c, <<"s5">>)
                /\ stack' = Proceed(t)
                /\ UNCHANGED <<m_dying, reentered>>
    /\ UNCHANGED <<appVars, gfxVars, m_on_is_about_to_stop, m_on_has_stopped, m_on_log, res, queue, cur,
                   storage, writer, disk, inflight, nextMsg, nOps, enq, lateInit,
                   lateCall, lateTouch, wired>>

\*    m_on_has_stopped = nullptr;  and destroy() returns. The flag stays set:
\*    a destroy() that cleared it on the way out would make the component
\*    Active again.
DestroyReturnResets(t) ==
    /\ At(t, "destroy", "s6")
    /\ m_on_has_stopped' = [m_on_has_stopped EXCEPT ![Top(t).c] = NULL]
    /\ m_dying' = [m_dying EXCEPT ![Top(t).c] = FALSE]
    /\ stack' = Return(t)
    /\ UNCHANGED <<appVars, gfxVars, stopped, m_on_is_about_to_stop, m_on_log, res, queue, cur,
                   storage, writer, disk, inflight, nextMsg, nOps, hist, enq, lateInit,
                   lateCall, lateTouch, reentered, wired>>

DestroyReturn(t) ==
    /\ At(t, "destroy", "s6")
    /\ m_on_has_stopped' = [m_on_has_stopped EXCEPT ![Top(t).c] = NULL]
    /\ stack' = Return(t)
    /\ UNCHANGED <<appVars, gfxVars, m_dying, stopped, m_on_is_about_to_stop, m_on_log, res, queue, cur,
                   storage, writer, disk, inflight, nextMsg, nOps, hist, enq, lateInit,
                   lateCall, lateTouch, reentered, wired>>

\* ---- Logger: write() and the writer thread ---------------------------------
\* write(), after its m_dying test: queue the message and return.
WritePushFront(t) ==
    /\ At(t, "write", "push")
    /\ queue' = <<Top(t).arg>> \o queue
    /\ enq' = Append(enq, Top(t).arg)
    /\ lateTouch' = (lateTouch \/ Top(t).late)
    /\ stack' = Return(t)
    /\ UNCHANGED <<appVars, gfxVars, m_dying, stopped, m_on_is_about_to_stop, m_on_has_stopped, m_on_log,
                   res, cur, storage, writer, disk, inflight, nextMsg, nOps, hist,
                   lateInit, lateCall, reentered, wired>>

\* A write() that waits until the writer thread is between two appends.
WritePushWaits(t) ==
    /\ At(t, "write", "push")
    /\ cur = 0
    /\ queue' = Append(queue, Top(t).arg)
    /\ enq' = Append(enq, Top(t).arg)
    /\ lateTouch' = (lateTouch \/ Top(t).late)
    /\ stack' = Return(t)
    /\ UNCHANGED <<appVars, gfxVars, m_dying, stopped, m_on_is_about_to_stop, m_on_has_stopped, m_on_log,
                   res, cur, storage, writer, disk, inflight, nextMsg, nOps, hist,
                   lateInit, lateCall, reentered, wired>>

WritePush(t) ==
    /\ At(t, "write", "push")
    /\ queue' = Append(queue, Top(t).arg)
    /\ enq' = Append(enq, Top(t).arg)
    /\ lateTouch' = (lateTouch \/ Top(t).late)
    /\ stack' = Return(t)
    /\ UNCHANGED <<appVars, gfxVars, m_dying, stopped, m_on_is_about_to_stop, m_on_has_stopped, m_on_log,
                   res, cur, storage, writer, disk, inflight, nextMsg, nOps, hist,
                   lateInit, lateCall, reentered, wired>>

\* The writer thread: take the oldest queued message; with the queue empty,
\* exit once m_dying is set, otherwise sleep until a message arrives.
WriterLoop ==
    /\ writer = "running"
    /\ At("writer", "writer", "loop")
    /\ IF queue # <<>>
       THEN /\ cur' = Head(queue)
            /\ queue' = Tail(queue)
            /\ stack' = Goto("writer", "append")
            /\ UNCHANGED writer
       ELSE /\ m_dying["Logger"]
            /\ writer' = "exited"
            /\ stack' = Goto("writer", "exited")
            /\ UNCHANGED <<cur, queue>>
    /\ UNCHANGED <<appVars, gfxVars, m_dying, stopped, m_on_is_about_to_stop, m_on_has_stopped, m_on_log,
                   res, storage, disk, inflight, nextMsg, nOps, hist, enq, lateInit,
                   lateCall, lateTouch, reentered, wired>>

\* Append the dequeued message to the file. A failed disk write is fatal for
\* the Logger: the writer thread, which detects it, calls stop().
WriterAppend ==
    /\ At("writer", "writer", "append")
    /\ cur' = 0
    /\ \/ /\ storage' = Append(storage, cur)
          /\ stack' = Goto("writer", "loop")
          /\ UNCHANGED <<disk, m_dying, reentered>>
       \/ /\ disk' = "failed"
          /\ CallDestroy("writer", Cont("writer", "failed"), "Logger")
          /\ UNCHANGED storage
    /\ UNCHANGED <<appVars, gfxVars, stopped, m_on_is_about_to_stop, m_on_has_stopped, m_on_log, res,
                   queue, writer, inflight, nextMsg, nOps, hist, enq, lateInit,
                   lateCall, lateTouch, wired>>

\* stop() has returned to the writer thread after a failed write: the thread ends.
WriterFailed ==
    /\ At("writer", "writer", "failed")
    /\ writer' = "exited"
    /\ stack' = Goto("writer", "exited")
    /\ UNCHANGED <<appVars, gfxVars, m_dying, stopped, m_on_is_about_to_stop, m_on_has_stopped, m_on_log,
                   res, queue, cur, storage, disk, inflight, nextMsg, nOps, hist, enq,
                   lateInit, lateCall, lateTouch, reentered, wired>>

\* ---- Engine: render() --------------------------------------------------------
\* Minimized window (0x0): skip the frame entirely.
ExtentIsZeroNever(e) == FALSE
ExtentIsZero(e) == e = "zero"

\* recreateSwapchain();  // query current window size internally
Recreated == [extent |-> extent, flagged |-> FALSE]

\* vkAcquireNextImageKHR returned VK_ERROR_OUT_OF_DATE_KHR:
\*     recreateSwapchain(); return;   // skip this frame, try next
AcquireStaleFatal(t) ==
    /\ CallDestroy(t, Cont(t, "ret"), "Engine")
    /\ UNCHANGED <<inflight, swapchain>>
AcquireStale(t) ==
    /\ swapchain' = Recreated
    /\ stack' = Return(t)
    /\ UNCHANGED <<inflight, m_dying, reentered>>

\* result = vkQueuePresentKHR(...);
\* if (result == VK_ERROR_OUT_OF_DATE_KHR || result == VK_SUBOPTIMAL_KHR)
\*     recreateSwapchain();
PresentResults == {"ok", "stale", "suboptimal"}
OnPresentIgnored(r) ==
    IF r \in {"stale", "suboptimal"} THEN [swapchain EXCEPT !.flagged = TRUE]
    ELSE swapchain
OnPresent(r) ==
    IF r \in {"stale", "suboptimal"} THEN Recreated ELSE swapchain

\* if (result != VK_SUCCESS) { destroy(); return; }
\* A render() that leaves with the error and without destroy().
AcquireErrorReturns(t) ==
    /\ stack' = Return(t)
    /\ UNCHANGED <<inflight, swapchain, m_dying, reentered>>
AcquireError(t) ==
    /\ CallDestroy(t, Cont(t, "ret"), "Engine")
    /\ UNCHANGED <<inflight, swapchain>>

\* render(), after its m_dying test. With a zero extent the frame is skipped.
\* Otherwise vkAcquireNextImageKHR: the swapchain is out of date (recreate,
\* skip the frame), or any other error, which is fatal (the Engine calls its
\* own destroy()), or a frame is drawn, submitted and presented.
AcquireResults == {"ok", "stale", "error"}
RenderAcquire(t) ==
    /\ At(t, "render", "acquire")
    /\ lateTouch' = (lateTouch \/ Top(t).late)
    /\ IF ExtentIsZero(extent)
       THEN /\ stack' = Return(t)
            /\ gfx' = [gfx EXCEPT !.skipped = @ + 1]
            /\ UNCHANGED <<inflight, m_dying, reentered, swapchain>>
       ELSE \E r \in AcquireResults :
              IF r = "stale"
              THEN /\ AcquireStale(t)
                   /\ gfx' = [gfx EXCEPT !.stale = @ + 1]
              ELSE IF r = "error"
              THEN /\ AcquireError(t)
                   /\ gfx' = [gfx EXCEPT !.errors = @ + 1]
              ELSE \E pr \in PresentResults :
                   /\ inflight' = inflight + 1
                   /\ swapchain' = OnPresent(pr)
                   /\ gfx' = [gfx EXCEPT !.frames = @ + 1,
                                         !.represent = IF pr = "ok" THEN @ ELSE @ + 1,
                                         !.flaggedUse = @ \/ swapchain.flagged]
                   /\ stack' = Return(t)
                   /\ UNCHANGED <<m_dying, reentered>>
    /\ UNCHANGED <<extent>>
    /\ UNCHANGED <<appVars, stopped, m_on_is_about_to_stop, m_on_has_stopped, m_on_log, res,
                   queue, cur, storage, writer, disk, nextMsg, nOps, hist, enq,
                   lateInit, lateCall, wired>>

RenderReturn(t) ==
    /\ At(t, "render", "ret")
    /\ stack' = Return(t)
    /\ UNCHANGED <<appVars, gfxVars, m_dying, stopped, m_on_is_about_to_stop, m_on_has_stopped, m_on_log,
                   res, queue, cur, storage, writer, disk, inflight, nextMsg, nOps,
                   hist, enq, lateInit, lateCall, lateTouch, reentered, wired>>

\* The GPU finishes one submitted workload.
GpuCompletes ==
    /\ inflight > 0
    /\ inflight' = inflight - 1
    /\ UNCHANGED <<appVars, gfxVars, m_dying, stopped, m_on_is_about_to_stop, m_on_has_stopped, m_on_log,
                   res, stack, queue, cur, storage, writer, disk, nextMsg, nOps, hist,
                   enq, lateInit, lateCall, lateTouch, reentered, wired>>

\* ---- Window: run() -----------------------------------------------------------
\* The loop condition of the event pump: leave once the window is dying.
RunCheck(t) ==
    /\ At(t, "run", "check")
    /\ stack' = IF IsDying("Window") THEN Return(t) ELSE Goto(t, "pump")
    /\ UNCHANGED <<appVars, gfxVars, m_dying, stopped, m_on_is_about_to_stop, m_on_has_stopped, m_on_log,
                   res, queue, cur, storage, writer, disk, inflight, nextMsg, nOps,
                   hist, enq, lateInit, lateCall, lateTouch, reentered, wired>>

\* One native event: a repaint (onDraw: the root's handler calls
\* engine.render()), a close request (onClosing: the root's handler calls
\* engine.destroy()), a fatal platform error (the window closes itself), or a
\* change of the drawable extent (resize, minimize).
RunPump(t) ==
    /\ At(t, "run", "pump")
    /\ nOps < MaxOps
    /\ nOps' = nOps + 1
    /\ lateTouch' = (lateTouch \/ Top(t).late)
    /\ \/ /\ CallOp(t, Cont(t, "check"), "render", "Engine", "acquire", 0)
          /\ UNCHANGED <<m_dying, reentered, extent>>
       \/ /\ \E c \in {"Engine", "Window"} : CallDestroy(t, Cont(t, "check"), c)
          /\ UNCHANGED <<lateCall, extent>>
       \/ /\ \E e \in Extents \ {extent} : extent' = e
          /\ stack' = Goto(t, "check")
          /\ UNCHANGED <<lateCall, m_dying, reentered>>
    /\ UNCHANGED <<swapchain, gfx>>
    /\ UNCHANGED <<appVars, stopped, m_on_is_about_to_stop, m_on_has_stopped, m_on_log, res,
                   queue, cur, storage, writer, disk, inflight, nextMsg, hist, enq,
                   lateInit, wired>>

\* ---- composition root (main thread) -----------------------------------------
\* logger.start(...), createWindow(...), renderer.init(...), in this order;
\* if (!start(...)) return EXIT_FAILURE;  a failed step tears down what was
\* started before it and ends the process.
RootStart ==
    /\ At("main", "root", "start")
    /\ LET i == Top("main").arg IN
        /\ InitComp(InitOrder[i])
        /\ stack' = IF res'[InitOrder[i]] = "held"
                    THEN IF i < Len(InitOrder)
                         THEN GotoArg("main", "start", i + 1)
                         ELSE GotoArg("main", "log", 0)
                    ELSE IF i = 1
                         THEN GotoArg("main", "done", 0)
                         ELSE GotoArg("main", "td", Len(TeardownOrder) + 2 - i)
        /\ swapchain' = IF InitOrder[i] = "Engine" /\ res'["Engine"] = "held"
                        THEN Recreated ELSE swapchain
    /\ UNCHANGED <<extent, gfx>>
    /\ UNCHANGED <<appVars, stopped, m_on_is_about_to_stop, m_on_has_stopped, m_on_log, queue,
                   cur, storage, disk, inflight, nextMsg, nOps, hist, enq, lateCall,
                   lateTouch, reentered, wired>>

\* logWrite("[INFO] Selected ... for rendering.")
RootLog ==
    /\ At("main", "root", "log")
    /\ CallOp("main", Cont("main", "run"), "write", "Logger", "push", nextMsg)
    /\ nextMsg' = nextMsg + 1
    /\ UNCHANGED <<appVars, gfxVars, m_dying, stopped, m_on_is_about_to_stop, m_on_has_stopped, m_on_log,
                   res, queue, cur, storage, writer, disk, inflight, nOps, hist, enq,
                   lateInit, lateTouch, reentered, wired>>

\* window.run(): the frame loop
RootRun ==
    /\ At("main", "root", "run")
    /\ CallOp("main", ContArg("main", "td", 1), "run", "Window", "pump", 0)
    /\ UNCHANGED <<appVars, gfxVars, m_dying, stopped, m_on_is_about_to_stop, m_on_has_stopped, m_on_log,
                   res, queue, cur, storage, writer, disk, inflight, nextMsg, nOps,
                   hist, enq, lateInit, lateTouch, reentered, wired>>

\* renderer.destroy(); destroyWindow(app); and the Logger is stopped last.
RootTeardown ==
    /\ At("main", "root", "td")
    /\ LET i == Top("main").arg IN
        IF i <= Len(TeardownOrder)
        THEN CallDestroy("main", ContArg("main", "td", i + 1), TeardownOrder[i])
        ELSE /\ stack' = GotoArg("main", "reinit", 1)
             /\ UNCHANGED <<m_dying, reentered>>
    /\ UNCHANGED <<appVars, gfxVars, stopped, m_on_is_about_to_stop, m_on_has_stopped, m_on_log, res,
                   queue, cur, storage, writer, disk, inflight, nextMsg, nOps, hist,
                   enq, lateInit, lateCall, lateTouch, wired>>

\* start()/init() called again on the components that were shut down.
RootReinit ==
    /\ At("main", "root", "reinit")
    /\ LET i == Top("main").arg IN
        IF i <= Len(InitOrder)
        THEN /\ IF m_dying[InitOrder[i]]
                THEN InitComp(InitOrder[i])
                ELSE UNCHANGED <<m_dying, res, writer, lateInit>>
             /\ stack' = GotoArg("main", "reinit", i + 1)
        ELSE /\ stack' = GotoArg("main", "done", 0)
             /\ UNCHANGED <<m_dying, res, writer, lateInit>>
    /\ UNCHANGED <<appVars, gfxVars, stopped, m_on_is_about_to_stop, m_on_has_stopped, m_on_log, queue,
                   cur, storage, disk, inflight, nextMsg, nOps, hist, enq, lateCall,
                   lateTouch, reentered, wired>>

\* ---- a second thread calling into the components ------------------------------
\* The second thread exists from the end of startup until main() returns.
RootPc == stack["main"][Len(stack["main"])].pc
StartupDone == RootPc \notin {"wire", "start", "done"}

ProdWrite ==
    /\ At("prod", "prod", "idle")
    /\ StartupDone
    /\ nOps < MaxOps
    /\ nOps' = nOps + 1
    /\ CallOp("prod", Top("prod"), "write", "Logger", "push", nextMsg)
    /\ nextMsg' = nextMsg + 1
    /\ UNCHANGED <<appVars, gfxVars, m_dying, stopped, m_on_is_about_to_stop, m_on_has_stopped, m_on_log,
                   res, queue, cur, storage, writer, disk, inflight, hist, enq,
                   lateInit, lateTouch, reentered, wired>>

ProdDestroy(c) ==
    /\ At("prod", "prod", "idle")
    /\ StartupDone
    /\ nOps < MaxOps
    /\ nOps' = nOps + 1
    /\ CallDestroy("prod", Top("prod"), c)
    /\ UNCHANGED <<appVars, gfxVars, stopped, m_on_is_about_to_stop, m_on_has_stopped, m_on_log, res,
                   queue, cur, storage, writer, disk, inflight, nextMsg, hist, enq,
                   lateInit, lateCall, lateTouch, wired>>

\* ---- the system ---------------------------------------------------------------
Step(t) ==
    \/ DestroyAbout(t) \/ DestroyClear(t) \/ DestroyWait(t)
    \/ DestroyRelease(t) \/ DestroyHasStopped(t) \/ DestroyReturn(t)
    \/ WritePush(t)
    \/ RenderAcquire(t) \/ RenderReturn(t)
    \/ RunCheck(t) \/ RunPump(t)

Root ==
    \/ \E c \in Comps, target \in Comps \cup {NULL} :
          SetOnIsAboutToStop(c, target) \/ SetOnHasStopped(c, target)
    \/ SetOnLog
    \/ RootStart \/ RootLog \/ RootRun \/ RootTeardown \/ RootReinit

Next ==
    \/ Root
    \/ \E t \in Threads : Step(t)
    \/ WriterLoop \/ WriterAppend \/ WriterFailed
    \/ ProdWrite
    \/ \E c \in Comps : ProdDestroy(c)
    \/ GpuCompletes

Spec == Init /\ [][Next]_vars

\* ---- the composition roots (main_linux.cpp, the Wayland main, the macOS main) --
StepAfter(step) ==
    LET i == CHOOSE k \in DOMAIN StartupOrder : StartupOrder[k] = step
    IN IF i < Len(StartupOrder) THEN StartupOrder[i + 1] ELSE "loop"

\* The same calls with the window released before the renderer.
OnFailureWindowFirst(p, step) ==
    CASE step = "logger.start" -> <<>>
      [] step = "createWindow" -> IF p = "wayland" THEN <<"destroyWindow">> ELSE <<>>
      [] step = "renderer.init" ->
            IF p = "macos" THEN <<"terminate">> ELSE <<"destroyWindow">>
      [] OTHER ->
            IF p = "macos" THEN <<"renderer.destroy", "terminate">>
            ELSE <<"destroyWindow", "renderer.destroy">>

\* The same calls without the destroyWindow that follows a failed createWindow.
OnFailureNoCleanup(p, step) ==
    CASE step = "logger.start" -> <<>>
      [] step = "createWindow" -> <<>>
      [] step = "renderer.init" ->
            IF p = "macos" THEN <<"terminate">> ELSE <<"destroyWindow">>
      [] OTHER ->
            IF p = "macos" THEN <<"renderer.destroy", "terminate">>
            ELSE <<"renderer.destroy", "destroyWindow">>

\* What main still calls after a startup step has reported failure, before it
\* ends with a failure status. On macOS the failure path of initializeVulkan
\* ends in [NSApp terminate:nil].
OnFailure(p, step) ==
    CASE step = "logger.start" -> <<>>
      [] step = "createWindow" -> IF p = "wayland" THEN <<"destroyWindow">> ELSE <<>>
      [] step = "renderer.init" ->
            IF p = "macos" THEN <<"terminate">> ELSE <<"destroyWindow">>
      [] OTHER ->
            IF p = "macos" THEN <<"renderer.destroy", "terminate">>
            ELSE <<"renderer.destroy", "destroyWindow">>

\* The native objects createWindow creates, in the order it creates them.
NativeOrder(p) ==
    CASE p = "x11" -> <<"display", "window">>
      [] p = "wayland" -> <<"display", "registry", "compositor", "xdg_wm_base",
                             "surface", "xdg_surface", "xdg_toplevel">>
      [] p = "macos" -> <<"window", "metalView", "metalLayer">>
Prefix(seq, n) == {seq[i] : i \in 1..n}

\* Wayland: the globals the registry roundtrip binds, in the order the server
\* announces them (registryGlobal binds wl_compositor and xdg_wm_base).
RegistryBinds ==
    {<<>>, <<"compositor">>, <<"xdg_wm_base">>,
     <<"compositor", "xdg_wm_base">>, <<"xdg_wm_base", "compositor">>}
WindowChain == <<"surface", "xdg_surface", "xdg_toplevel">>

\* The runs of createWindow: the objects it creates, in order (made), those it
\* releases again itself before it returns (undone), and its result. X11
\* closes the display again when XCreateWindow fails; the Wayland createWindow
\* returns false with what it had created up to the failure.
CreateRuns(p) ==
    CASE p = "x11" ->
           {[made |-> <<>>, undone |-> <<>>, ok |-> FALSE],
            [made |-> <<"display">>, undone |-> <<"display">>, ok |-> FALSE],
            [made |-> <<"display", "window">>, undone |-> <<>>, ok |-> TRUE]}
      [] p = "wayland" ->
           {[made |-> <<>>, undone |-> <<>>, ok |-> FALSE]}
           \cup {[made |-> <<"display", "registry">> \o b, undone |-> <<>>, ok |-> FALSE] :
                    b \in {x \in RegistryBinds : Len(x) < 2}}
           \cup {[made |-> <<"display", "registry">> \o bn[1] \o SubSeq(WindowChain, 1, bn[2]),
                  undone |-> <<>>, ok |-> (bn[2] = Len(WindowChain))] :
                    bn \in {x \in RegistryBinds : Len(x) = 2} \X (0..Len(WindowChain))}
      [] p = "macos" ->
           {[made |-> <<"window", "metalView", "metalLayer">>, undone |-> <<>>, ok |-> TRUE]}

Attempt(step, ok) ==
    Append(called, [step |-> step, ok |-> ok, logger |-> loggerUp,
                    window |-> (handle = "filled" /\ native # {})])

\* A main that ignores the result of the step and goes on.
AbortIgnored(step) ==
    /\ mainPc' = StepAfter(step)
    /\ todo' = <<>>
    /\ ret' = ret
    /\ fatal' = TRUE

\* return EXIT_FAILURE after the calls of OnFailure
Abort(step) ==
    /\ mainPc' = "cleanup"
    /\ todo' = OnFailure(platform, step)
    /\ ret' = "EXIT_FAILURE"
    /\ fatal' = TRUE

\* if (!app.logger.start("log.txt", out_error_message)) return EXIT_FAILURE;
LoggerStart ==
    /\ mainPc = "logger.start"
    /\ \E ok \in BOOLEAN :
         /\ called' = Attempt("logger.start", ok)
         /\ loggerUp' = ok
         /\ IF ok
            THEN /\ mainPc' = StepAfter("logger.start")
                 /\ UNCHANGED <<todo, ret, fatal>>
            ELSE Abort("logger.start")
    /\ UNCHANGED <<protoVars, cfgVars, winVars, logVars, closeSeen, devVars, width, height, platform, status, native, handle, rend, running, appLog,
                   looped>>

\* createWindow(app, 800, 600, "StringWiggler") and, when it succeeded, the
\* filling of window_handle. macOS: applicationDidFinishLaunching, which
\* cannot fail. Wayland: with all objects created and the surface committed,
\* createWindow goes on to wait for the first configure event.
CreateWindow ==
    /\ mainPc = "createWindow"
    /\ \E run \in CreateRuns(platform) :
         /\ created' = created \o run.made
         /\ released' = released \o run.undone
         /\ native' = Prefix(run.made, Len(run.made)) \ Prefix(run.undone, Len(run.undone))
         /\ IF run.ok /\ platform = "wayland"
            THEN /\ mainPc' = "configureWait"
                 /\ UNCHANGED <<called, handle, todo, ret, fatal, appLog>>
            ELSE IF run.ok
            THEN /\ called' = Attempt("createWindow", TRUE)
                 /\ handle' = "filled"
                 /\ mainPc' = StepAfter("createWindow")
                 /\ UNCHANGED <<todo, ret, fatal, appLog>>
            ELSE /\ called' = Attempt("createWindow", FALSE)
                 /\ appLog' = Append(appLog, "[ERROR] createWindow")
                 /\ Abort("createWindow")
                 /\ UNCHANGED handle
    /\ UNCHANGED <<protoVars, cfgVars, devVars, logVars, closeSeen, width, height, platform, status,
                   loggerUp, rend, running, looped>>

\* What the renderer holds when init has returned false: nothing (an init that
\* failed after vkCreateInstance and kept the instance would hold it).
LeftByFailedInitPartial == {"instance"}
LeftByFailedInit == {}

\* if (!app.renderer.init(out_error_message, window_handle)) { logWrite; ... }
\* A failed init leaves the renderer holding nothing.
RendererInit ==
    /\ mainPc = "renderer.init"
    /\ \E ok \in BOOLEAN :
         /\ called' = Attempt("renderer.init", ok)
         /\ IF ok
            THEN /\ rend' = {"instance", "surface"}
                 /\ mainPc' = StepAfter("renderer.init")
                 /\ UNCHANGED <<todo, ret, fatal, appLog>>
            ELSE /\ rend' = LeftByFailedInit
                 /\ appLog' = Append(appLog, "[ERROR] renderer.init")
                 /\ Abort("renderer.init")
    /\ UNCHANGED <<protoVars, cfgVars, winVars, logVars, closeSeen, devVars, width, height, platform, status, loggerUp, native, handle, running,
                   looped>>

\* The enumerations of the instance's devices: each device capable or not.
Enumerations == UNION {[1..n -> BOOLEAN] : n \in 0..MaxDevices}

\* The capable devices of an enumeration, in enumeration order.
SupportedOf(enum) ==
    LET IsCapable(i) == enum[i]
    IN SelectSeq([i \in 1..Len(enum) |-> i], IsCapable)

\* The lookup reports failure when it found no capable device.
LookupReportsAlways(list) == TRUE
LookupReports(list) == list # <<>>

\* supported_devices[0]: element 0 of the vector; indexing an empty vector is
\* undefined and may yield any value.
ElementZero(list) == IF list # <<>> THEN {list[1]} ELSE 0..MaxDevices

\* if (!app.renderer.getSupportedPhysicalDevices(...)) { logWrite; destroy; ... }
GetSupportedPhysicalDevices ==
    /\ mainPc = "getSupportedPhysicalDevices"
    /\ \E enum \in Enumerations, apiOk \in BOOLEAN :
       LET ok == apiOk /\ LookupReports(SupportedOf(enum)) IN
         /\ enumerated' = enum
         /\ supported_devices' = IF apiOk THEN SupportedOf(enum) ELSE <<>>
         /\ UNCHANGED physical_device
         /\ called' = Attempt("getSupportedPhysicalDevices", ok)
         /\ IF ok
            THEN /\ appLog' = Append(appLog, "[INFO] Found supported devices")
                 /\ mainPc' = StepAfter("getSupportedPhysicalDevices")
                 /\ UNCHANGED <<todo, ret, fatal>>
            ELSE /\ appLog' = Append(appLog, "[ERROR] getSupportedPhysicalDevices")
                 /\ Abort("getSupportedPhysicalDevices")
    /\ UNCHANGED <<protoVars, cfgVars, winVars, logVars, closeSeen, width, height, platform, status, loggerUp, native, handle, rend, running,
                   looped>>

\* if (!app.renderer.createLogicalDevice(supported_devices[0], ...)) { ... }
CreateLogicalDevice ==
    /\ mainPc = "createLogicalDevice"
    /\ physical_device' \in ElementZero(supported_devices)
    /\ UNCHANGED <<enumerated, supported_devices>>
    /\ \E ok \in BOOLEAN :
         /\ called' = Attempt("createLogicalDevice", ok)
         /\ IF ok
            THEN /\ rend' = rend \cup {"device"}
                 /\ appLog' = Append(appLog, "[INFO] Selected device")
                 /\ mainPc' = StepAfter("createLogicalDevice")
                 /\ UNCHANGED <<todo, ret, fatal>>
            ELSE /\ appLog' = Append(appLog, "[ERROR] createLogicalDevice")
                 /\ Abort("createLogicalDevice")
                 /\ UNCHANGED rend
    /\ UNCHANGED <<protoVars, cfgVars, winVars, logVars, closeSeen, width, height, platform, status, loggerUp, native, handle, running,
                   looped>>

\* The sizes a toplevel configure event can carry.
ConfigureSizes == {-1, 0, 1, 2}

\* The native events an iteration of the frame loop can find pending.
Event(type) == [type |-> type, w |-> 0, h |-> 0]
LoopEvents(p) ==
    CASE p = "x11" -> {Event(t) : t \in {"ClientMessage.wm_delete_window", "ClientMessage.other",
                                         "DestroyNotify", "ConfigureNotify"}}
      [] p = "wayland" -> {Event("close")}
                          \cup {[type |-> "configure", w |-> w, h |-> h] : w, h \in ConfigureSizes}
      [] p = "macos" -> {Event("windowWillClose")}
Batches(p) == UNION {[1..n -> LoopEvents(p)] : n \in 0..MaxBatch}

\* The events that are a close request: a ClientMessage carrying
\* wm_delete_window, a DestroyNotify, the toplevel's close.
IsClose(ev) == ev.type \in {"ClientMessage.wm_delete_window", "DestroyNotify", "close"}

\* xdgToplevelConfigure: if (width > 0 && height > 0) { app->width = width; ... }
\* (Without the test every configure event would be stored.)
XdgToplevelConfigureUnguarded(app, w, h) == [app EXCEPT !.width = w, !.height = h]
XdgToplevelConfigure(app, w, h) ==
    IF w > 0 /\ h > 0 THEN [app EXCEPT !.width = w, !.height = h] ELSE app

\* app.running = false;  in the handler of a close request. (A handler that
\* assigned the flag for every event would set it back.)
OnEventResets(app, ev) == [app EXCEPT !.running = ~IsClose(ev)]
OnEvent(app, ev) ==
    IF IsClose(ev) THEN [app EXCEPT !.running = FALSE]
    ELSE IF ev.type = "configure" THEN XdgToplevelConfigure(app, ev.w, ev.h)
    ELSE app

\* processEvents(app) / wl_display_dispatch_pending: the pending events are
\* handled one after the other.
RECURSIVE ProcessEvents(_, _)
ProcessEvents(app, evs) ==
    IF evs = <<>> THEN app ELSE ProcessEvents(OnEvent(app, Head(evs)), Tail(evs))

\* while (!app.configured) { wl_display_dispatch(app.display); }
\* One dispatch that delivers an event of the toplevel (configure, close).
ConfigureWaitDispatch ==
    /\ mainPc = "configureWait"
    /\ ~configured /\ ~displayError
    /\ \E ev \in LoopEvents("wayland") :
       LET app == OnEvent([running |-> running, width |-> width, height |-> height], ev)
       IN
         /\ running' = app.running
         /\ width' = app.width
         /\ height' = app.height
         /\ closeSeen' = (closeSeen \/ IsClose(ev))
    /\ UNCHANGED <<protoVars, cfgVars, devVars, winVars, logVars, platform, mainPc, todo, ret,
                   status, loggerUp, native, handle, rend, appLog, called, fatal, looped>>

\* xdgSurfaceConfigure: xdg_surface_ack_configure(...); app->configured = true;
XdgSurfaceConfigure ==
    /\ mainPc = "configureWait"
    /\ ~configured /\ ~displayError
    /\ configured' = TRUE
    /\ UNCHANGED <<protoVars, devVars, winVars, logVars, closeSeen, displayError, width, height,
                   platform, mainPc, todo, ret, status, loggerUp, native, handle, rend,
                   running, appLog, called, fatal, looped>>

\* The display connection fails. From then on wl_display_dispatch returns -1
\* without delivering anything; the wait does not look at its result and calls
\* it again, which changes nothing.
DisplayFails ==
    /\ mainPc = "configureWait"
    /\ ~configured /\ ~displayError
    /\ displayError' = TRUE
    /\ UNCHANGED <<protoVars, devVars, winVars, logVars, closeSeen, configured, width, height,
                   platform, mainPc, todo, ret, status, loggerUp, native, handle, rend,
                   running, appLog, called, fatal, looped>>

\* app.configured is set: the wait is left and createWindow returns true.
ConfigureWaitReturn ==
    /\ mainPc = "configureWait"
    /\ configured
    /\ called' = Attempt("createWindow", TRUE)
    /\ handle' = "filled"
    /\ mainPc' = StepAfter("createWindow")
    /\ UNCHANGED <<protoVars, cfgVars, devVars, winVars, logVars, closeSeen, width, height,
                   platform, todo, ret, status, loggerUp, native, rend, running, appLog,
                   fatal, looped>>

\* while (app.running)
LoopConditionAlways == TRUE
LoopCondition == running

\* while (app.running) { processEvents(app); }   one iteration. Wayland:
\* dispatch, then wl_display_get_error != 0 -> logWrite and break. macOS: the
\* events of [NSApp run]; windowWillClose calls [NSApp terminate:nil].
FrameLoop ==
    /\ mainPc = "loop"
    /\ LoopCondition
    /\ looped' = TRUE
    /\ \E evs \in Batches(platform), err \in (IF platform = "wayland" THEN BOOLEAN ELSE {FALSE}) :
       LET app == ProcessEvents([running |-> running, width |-> width, height |-> height], evs)
       IN
         /\ running' = app.running
         /\ width' = app.width
         /\ height' = app.height
         /\ closeSeen' = (closeSeen \/ \E i \in DOMAIN evs : IsClose(evs[i]))
         /\ IF err
            THEN /\ appLog' = Append(appLog, "[ERROR] Wayland display error.")
                 /\ fatal' = TRUE
                 /\ mainPc' = "cleanup"
                 /\ todo' = <<"renderer.destroy", "destroyWindow">>
                 /\ ret' = "EXIT_SUCCESS"
            ELSE IF \E i \in DOMAIN evs : evs[i].type = "windowWillClose"
            THEN /\ mainPc' = "cleanup"
                 /\ todo' = <<"terminate">>
                 /\ ret' = "EXIT_SUCCESS"
                 /\ UNCHANGED <<appLog, fatal>>
            ELSE UNCHANGED <<appLog, fatal, mainPc, todo, ret>>
    /\ UNCHANGED <<protoVars, cfgVars, devVars, winVars, logVars, platform, status, loggerUp, native,
                   handle, rend, called>>

\* The loop condition is false: main goes on to renderer.destroy() and
\* destroyWindow(app) and returns EXIT_SUCCESS.
LoopExit ==
    /\ mainPc = "loop"
    /\ ~LoopCondition
    /\ mainPc' = "cleanup"
    /\ todo' = <<"renderer.destroy", "destroyWindow">>
    /\ ret' = "EXIT_SUCCESS"
    /\ UNCHANGED <<protoVars, cfgVars, devVars, winVars, logVars, closeSeen, width, height, platform,
                   status, loggerUp, native, handle, rend, running, appLog, called, fatal,
                   looped>>

\* app.renderer.destroy();  in a DEBUG build the validation layer may report
\* through vulkanDebugCallback, which calls logWrite.
RendererDestroy ==
    /\ mainPc = "cleanup"
    /\ todo # <<>> /\ Head(todo) = "renderer.destroy"
    /\ rend' = {}
    /\ todo' = Tail(todo)
    /\ \E layer \in BOOLEAN :
         appLog' = IF layer /\ loggerUp THEN Append(appLog, "[LAYER] message") ELSE appLog
    /\ UNCHANGED <<protoVars, cfgVars, devVars, winVars, logVars, closeSeen, width, height, platform,
                   mainPc, ret, status, loggerUp, native, handle, running, called, fatal,
                   looped>>

\* destroyWindow: the fields in the order the function tests them.
DestroyWindowOrder(p) ==
    CASE p = "x11" -> <<"window", "display">>
      [] p = "wayland" -> <<"xdg_toplevel", "xdg_surface", "surface", "xdg_wm_base",
                             "compositor", "registry", "display">>
      [] p = "macos" -> <<>>

\* if (app.x != nullptr) { destroy(app.x); ... }   the objects one call of
\* destroyWindow releases, in order: those whose field is set.
ReleasedBy(p, fields) ==
    LET IsSet(o) == o \in fields
    IN SelectSeq(DestroyWindowOrder(p), IsSet)

\* ... app.x = nullptr; }   the fields after the call. (A destroyWindow that
\* did not reset them would leave them as they were.)
FieldsAfterKept(p, fields) == fields
FieldsAfter(p, fields) ==
    fields \ Prefix(ReleasedBy(p, fields), Len(ReleasedBy(p, fields)))

\* destroyWindow(app);
DestroyWindow ==
    /\ mainPc = "cleanup"
    /\ todo # <<>> /\ Head(todo) = "destroyWindow"
    /\ released' = released \o ReleasedBy(platform, native)
    /\ native' = FieldsAfter(platform, native)
    /\ todo' = Tail(todo)
    /\ UNCHANGED <<protoVars, cfgVars, devVars, logVars, closeSeen, created, width, height, platform,
                   mainPc, ret, status, loggerUp, handle, rend, running, appLog, called,
                   fatal, looped>>

\* [NSApp terminate:nil]: applicationWillTerminate runs (renderer.destroy()),
\* then the process ends through exit(0); control never returns to main, and
\* main's local AppData is not destructed.
Terminate ==
    /\ mainPc = "cleanup"
    /\ todo # <<>> /\ Head(todo) = "terminate"
    /\ rend' = {}
    /\ todo' = <<>>
    /\ mainPc' = "exited"
    /\ status' = "EXIT_SUCCESS"
    /\ native' = {}
    /\ UNCHANGED <<protoVars, cfgVars, devVars, winVars, logVars, closeSeen, width, height, platform,
                   ret, loggerUp, handle, running, appLog, called, fatal, looped>>

\* The logger's writer thread appends the next queued message to the log file.
LogWriterStep ==
    /\ loggerUp /\ ~loggerStopped
    /\ status = "none"
    /\ persisted < Len(appLog)
    /\ persisted' = persisted + 1
    /\ UNCHANGED <<protoVars, cfgVars, devVars, winVars, closeSeen, loggerStopped, width, height,
                   platform, mainPc, todo, ret, status, loggerUp, native, handle, rend,
                   running, appLog, called, fatal, looped>>

\* ~AppData at main's return: the members are destructed in reverse order of
\* declaration, the renderer first, then the logger, whose destructor stops
\* it: the queue is drained and the writer thread joined.
LoggerStoppedAtReturn == loggerUp

\* return EXIT_FAILURE;  /  return EXIT_SUCCESS;
MainReturn ==
    /\ mainPc = "cleanup"
    /\ todo = <<>>
    /\ mainPc' = "exited"
    /\ status' = ret
    /\ loggerStopped' = LoggerStoppedAtReturn
    /\ persisted' = IF LoggerStoppedAtReturn THEN Len(appLog) ELSE persisted
    /\ UNCHANGED <<protoVars, cfgVars, devVars, winVars, closeSeen, width, height, platform, todo, ret,
                   loggerUp, native, handle, rend, running, appLog, called, fatal, looped>>

MainInit == ProtoInit /\ \E p \in Platforms : AppInit(p)

MainNext ==
    \/ LoggerStart \/ CreateWindow \/ RendererInit
    \/ GetSupportedPhysicalDevices \/ CreateLogicalDevice
    \/ FrameLoop \/ LoopExit
    \/ RendererDestroy \/ DestroyWindow \/ Terminate \/ MainReturn
    \/ LogWriterStep
    \/ ConfigureWaitDispatch \/ XdgSurfaceConfigure \/ DisplayFails \/ ConfigureWaitReturn

MainSpec == MainInit /\ [][MainNext]_vars

\* main runs on: it is never suspended for ever at a step it can take. And the
\* compositor answers the first commit of a surface with a configure event, as
\* long as the connection stands.
MainLive == MainSpec /\ WF_vars(MainNext) /\ WF_vars(XdgSurfaceConfigure)

\* ---- the claims -----------------------------------------------------------------
\* No step of any thread, of the GPU or of the environment is possible any more.
Quiescent == ~ENABLED Next

AllFrames == UNION {{stack[t][i] : i \in DOMAIN stack[t]} : t \in Threads}
Range(s) == {s[i] : i \in DOMAIN s}
Before(s, x, y) == \A i, j \in DOMAIN s : s[i] = x /\ s[j] = y => i < j
StepMarks == {"s2", "s3", "s4", "s5"}

\* Some destroy()/stop() call on c is still on a thread's stack.
Destroying(c) == \E t \in Threads : InDestroy(t, c)
\* The stop() call that shut the Logger down has returned.
StopReturned == "s5" \in Range(hist["Logger"]) /\ ~Destroying("Logger")

\* C1: however often and from whichever threads destroy()/stop() is called on a
\* component, each of the steps 2 to 5 is executed at most once, and once nothing
\* can move any more every call has returned and, for every component that was
\* shut down, each of the steps 2 to 5 has been executed exactly once.
C1_ExactlyOnceAllReturn ==
    /\ \A c \in Comps : \A k \in StepMarks : Count(hist[c], k) <= 1
    /\ Quiescent =>
         /\ \A c \in Comps : ~Destroying(c)
         /\ \A c \in Comps : m_dying[c] => \A k \in StepMarks : Count(hist[c], k) = 1

\* C2: the lifecycle of a component only moves Active -> Dying -> Stopped; no
\* step, a repeated init()/start() included, moves it back.
LifecycleRank(c) ==
    CASE Lifecycle(c) = "Active" -> 0 [] Lifecycle(c) = "Dying" -> 1
      [] Lifecycle(c) = "Stopped" -> 2
C3_CallbackOrder ==
    \A c \in Comps :
        /\ Before(hist[c], "about", "wait") /\ Before(hist[c], "about", "s4")
        /\ Before(hist[c], "wait", "stopped") /\ Before(hist[c], "s4", "stopped")
        /\ res[c] = "released" => "s4" \in Range(hist[c])
        /\ (m_on_is_about_to_stop[c] # NULL /\ m_dying[c] /\ "s2" \notin Range(hist[c]))
              => Range(hist[c]) = {}
C3_Witness ==
    \E c \in Comps : {"about", "wait", "s4", "stopped"} \subseteq Range(hist[c])

\* C4: a render(), write() or run() called on a component whose destroy() has
\* begun changes nothing but the caller's control: no resource, queue or slot
\* changes, no frame of the operation is entered, no shutdown is started.
C4_LateCallsNoOp ==
    /\ [](~lateTouch /\ \A f \in AllFrames : f.op \in Ops => ~f.late)
    /\ [][lateCall' # lateCall =>
            /\ UNCHANGED <<m_dying, stopped, m_on_is_about_to_stop, m_on_has_stopped,
                           m_on_log, res, queue, cur, storage, writer, disk, inflight,
                           hist, enq>>
            /\ \A t \in Threads : Len(stack'[t]) = Len(stack[t])]_vars
C4_Witness ==
    /\ lateCall["write"] > 0
    /\ lateCall["run"] > 0

\* C5: the messages are appended to storage in the order in which they entered
\* the queue: storage is always a prefix of the enqueue order.
C5_FifoOrder ==
    /\ Len(storage) <= Len(enq)
    /\ \A i \in DOMAIN storage : storage[i] = enq[i]
C5_Witness ==
    /\ storage = <<2, 1>>
    /\ enq = storage

\* C6: once stop() has returned, every message that entered the queue is in
\* storage (as long as the disk did not fail), also a message whose write()
\* passed the m_dying test while stop() was running.
C6_NothingDropped ==
    (StopReturned /\ disk = "ok") => (queue = <<>> /\ cur = 0 /\ storage = enq)

\* C7: when stop() has returned the queue is empty and the writer thread has
\* exited, and once nothing can move any more a stop() that was called has
\* returned.
C7_StopAfterDrain ==
    /\ StopReturned => (queue = <<>> /\ writer # "running")
    /\ (Quiescent /\ m_dying["Logger"]) => StopReturned

\* C8: whichever thread calls destroy()/stop(), the writer thread after a failed
\* disk write included, the call completes: once nothing can move any more every
\* component that began to shut down is Stopped.
C8_ShutdownCompletes ==
    Quiescent => \A c \in Comps : m_dying[c] => Lifecycle(c) = "Stopped"

\* C9: with handlers that destroy peers, cycles included, each component runs
\* its steps 2 to 5 at most once, a destroy() called again on a component
\* leaves it untouched, and the cascade ends: once nothing can move any more no
\* thread is inside a destroy() call.
C9_CascadeTerminates ==
    /\ \A c \in Comps : \A k \in StepMarks \cup {"about", "stopped"} :
          Count(hist[c], k) <= 1
    /\ Quiescent => \A t \in Threads : \A c \in Comps : ~InDestroy(t, c)

\* C10: onHasStopped is invoked at most once; when it has been invoked the
\* component is Stopped and its resources are released; and a component whose
\* slot was wired has invoked it once its destroy() has run step 5, although
\* step 3 cleared the other slots.
C10_HasStoppedOnce ==
    \A c \in Comps :
        /\ Count(hist[c], "stopped") <= 1
        /\ "stopped" \in Range(hist[c]) =>
              /\ Lifecycle(c) = "Stopped"
              /\ res[c] = "released"
              /\ Before(hist[c], "s3", "stopped")
        /\ (c \in wired /\ "s5" \in Range(hist[c])) => "stopped" \in Range(hist[c])
C10_Witness ==
    \E c \in Comps : c \in wired /\ Count(hist[c], "stopped") = 1
                     /\ m_on_log[c] = FALSE /\ "s3" \in Range(hist[c])

\* Component c has begun step 2 of its shutdown and has not reached step 5.
InBetween(c) == "s2" \in Range(hist[c]) /\ "s5" \notin Range(hist[c])
IsStepMark(x) == x \in StepMarks \cup {"wait"}
Last(s) == s[Len(s)]

\* C11: a component's callback slots change only in a setOn* call of the wiring
\* and in the component's own destroy() (steps 3 and 5); once step 3 has run
\* the onLog and onIsAboutToStop slots are empty, and the only callback in the
\* component's history after step 3 is onHasStopped.
SlotsOf(c) == <<m_on_is_about_to_stop[c], m_on_has_stopped[c], m_on_log[c]>>
C11_SlotsOwnedByComponent ==
    /\ [][\A c \in Comps : SlotsOf(c)' # SlotsOf(c) =>
             \/ At("main", "root", "wire")
             \/ \E t \in Threads : /\ stack[t] # <<>>
                                   /\ Top(t).op = "destroy" /\ Top(t).c = c
                                   /\ Top(t).pc \in {"s3", "s6"}]_vars
    /\ [](\A c \in Comps : "s3" \in Range(hist[c]) =>
             /\ m_on_log[c] = FALSE
             /\ m_on_is_about_to_stop[c] = NULL
             /\ Before(hist[c], "about", "s3"))
C11_Witness ==
    \E c \in {"Window", "Engine"} :
        /\ {"about", "s3", "stopped"} \subseteq Range(hist[c])
        /\ m_on_has_stopped[c] = NULL

\* C12 (as stated): between a component's onIsAboutToStop and its onHasStopped
\* no other component is inside its own steps 2 to 5.
C12_NoInterleaving ==
    \A c, d \in Comps : c # d => ~(InBetween(c) /\ InBetween(d))

\* C12 (amended): a destroy() that has returned has run its steps 2 to 5, all
\* of them and in order; a destroy() that a handler calls on a peer is nested:
\* the caller's destroy() stands right after the callback (step 2 or step 5)
\* for as long as the peer's call is on the thread's stack.
C12_NestedCompletion ==
    /\ \A c \in Comps : (m_dying[c] /\ ~Destroying(c)) =>
           SelectSeq(hist[c], IsStepMark) = <<"s2", "s3", "wait", "s4", "s5">>
    /\ \A t \in Threads : \A i \in DOMAIN stack[t] :
           (i > 1 /\ stack[t][i].op = "destroy") =>
               /\ stack[t][i].pc \in {"s3", "s6"}
               /\ hist[stack[t][i].c] # <<>>
               /\ Last(hist[stack[t][i].c]) =
                     (IF stack[t][i].pc = "s3" THEN "about" ELSE "stopped")
C12_Witness ==
    \E t \in Threads :
        /\ Len(stack[t]) >= 2
        /\ stack[t][1].op = "destroy" /\ stack[t][1].pc = "s6"
        /\ stack[t][2].op = "destroy" /\ stack[t][2].pc = "s3"
        /\ InBetween(stack[t][2].c)

\* ---- claims about the composition roots ------------------------------------
Failed(step) == \E i \in DOMAIN called : called[i].step = step /\ ~called[i].ok
AnyFailed == \E i \in DOMAIN called : ~called[i].ok
AllSucceeded ==
    /\ Len(called) = Len(StartupOrder)
    /\ \A i \in DOMAIN called : called[i].ok
Exited == status # "none"

\* The native objects the NativeWindowHandle given to the renderer refers to.
HandleObjects(p) ==
    CASE p = "x11" -> {"display", "window"}
      [] p = "wayland" -> {"display", "surface"}
      [] p = "macos" -> {"metalLayer"}

\* C13: on every platform main starts Logger, Window, Engine in this order: a
\* native window object exists only after logger.start has succeeded, and
\* renderer.init is called only with the logger started, the window created
\* and the native handle filled in.
C13_StartupOrder ==
    /\ native # {} => loggerUp
    /\ \A i \in DOMAIN called :
         /\ called[i].step = "createWindow" => called[i].logger
         /\ called[i].step = "renderer.init" => (called[i].logger /\ called[i].window)
         /\ \A j \in DOMAIN called :
              (called[i].step = "renderer.init" /\ called[j].step = "createWindow")
                 => (j < i /\ called[j].ok)
C13_Witness ==
    /\ platform = "macos"
    /\ \E i \in DOMAIN called : called[i].step = "renderer.init"

\* C14: the process ends with EXIT_SUCCESS after an orderly shutdown and with a
\* failure status whenever a startup step reported failure, on every platform.
C14_ExitStatus ==
    Exited =>
        /\ AnyFailed => status = "EXIT_FAILURE"
        /\ (AllSucceeded /\ ~fatal) => status = "EXIT_SUCCESS"

\* C15: when a fatal condition occurred (a failed startup step, a display
\* error in the frame loop), the process has logged a message if the logger was
\* started, and ends with a failure status.
C15_FatalLoggedAndNonzero ==
    (Exited /\ fatal) =>
        /\ status = "EXIT_FAILURE"
        /\ loggerUp => \E i \in DOMAIN appLog :
                            appLog[i] \notin {"[INFO] Found supported devices",
                                              "[INFO] Selected device"}

\* C16: after a startup step has reported failure main makes no further
\* startup step, and the frame loop is entered only after all five steps
\* returned success.
C16_NoStepAfterFailure ==
    /\ \A i, j \in DOMAIN called : i < j => called[i].ok
    /\ (looped \/ mainPc = "loop") => AllSucceeded
    /\ AnyFailed => mainPc \in {"cleanup", "exited"}
C16_Witness ==
    /\ Failed("getSupportedPhysicalDevices")
    /\ Exited

C18_StaleRecovery ==
    [][gfx'.stale > gfx.stale =>
          /\ swapchain' = [extent |-> extent, flagged |-> FALSE]
          /\ gfx'.frames = gfx.frames
          /\ UNCHANGED <<inflight, m_dying, hist, stopped, res>>]_vars
C18_Witness ==
    /\ gfx.stale = 2
    /\ Lifecycle("Engine") = "Active"
    /\ swapchain.extent = extent

C20_RecreateBeforeNextAcquire ==
    /\ [](~swapchain.flagged /\ ~gfx.flaggedUse)
    /\ [][gfx'.represent > gfx.represent =>
             swapchain' = [extent |-> extent, flagged |-> FALSE]]_vars
C20_Witness ==
    /\ gfx.represent = 2
    /\ gfx.frames = 2
\* C21: a GPU error in render() other than a stale target is fatal for the
\* Engine: the step that meets it is step 1 of the Engine's destroy() (the
\* Engine is dying from then on, and unless another thread's destroy() got
\* there first the shutdown's step 2 is next on this thread); render() then
\* returns to its caller like any other return; afterwards no render() draws,
\* recreates or submits anything; and once nothing can move any more the
\* Engine is Stopped, its steps 2 to 5 run in order.
RenderFailing(t) == \E i \in DOMAIN stack[t] : stack[t][i].op = "render" /\ stack[t][i].pc = "ret"
C22_WaitBeforeRelease ==
    /\ [](Before(hist["Engine"], "wait", "s4"))
    /\ []("s4" \in Range(hist["Engine"]) => "wait" \in Range(hist["Engine"]))
    /\ [][(res'["Engine"] = "released" /\ res["Engine"] # "released") => inflight = 0]_vars
\* C23: when renderer.init has returned false the renderer holds no instance,
\* surface or device handle, from that moment on, although main does not call
\* renderer.destroy() on that path; and after any failed startup step the
\* process ends with the renderer holding nothing.
C23_FailedInitLeavesNothing ==
    /\ [](Failed("renderer.init") => rend = {})
    /\ []((AnyFailed /\ Exited) => rend = {})
    /\ [][Failed("renderer.init") => ~(\E k \in DOMAIN todo : todo[k] = "renderer.destroy")]_vars
C23_Witness ==
    /\ Failed("renderer.init")
    /\ mainPc = "cleanup"
    /\ todo = <<"destroyWindow">>
    /\ rend = {}
\* C24: createLogicalDevice is called only after a successful lookup, with
\* element 0 of the list the lookup returned, which is the first capable
\* device in enumeration order; the list is never indexed when it is empty.
Called(step) == \E i \in DOMAIN called : called[i].step = step
C24_FirstCapableDevice ==
    /\ mainPc = "createLogicalDevice" =>
          /\ supported_devices # <<>>
          /\ supported_devices = SupportedOf(enumerated)
          /\ ~Failed("getSupportedPhysicalDevices")
    /\ Called("createLogicalDevice") =>
          /\ physical_device \in DOMAIN enumerated
          /\ enumerated[physical_device]
          /\ \A j \in 1..(physical_device - 1) : ~enumerated[j]
    /\ ~Called("createLogicalDevice") => physical_device = 0
C24_Witness ==
    /\ Called("createLogicalDevice")
    /\ enumerated = <<FALSE, TRUE>>
    /\ physical_device = 2
C27_LoggerStoppedLast ==
    /\ []((Exited /\ loggerUp) => (loggerStopped /\ persisted = Len(appLog)))
    /\ [][(loggerStopped' /\ ~loggerStopped) => rend = {}]_vars

\* C28: when createWindow has reported failure and the process has ended,
\* every native object that was created has been released exactly once and
\* nothing else has; on X11 a failed createWindow itself leaves no object.
C28_FailedCreateReleasesAll ==
    /\ (Failed("createWindow") /\ platform = "x11") => native = {}
    /\ (Failed("createWindow") /\ Exited) =>
          /\ native = {}
          /\ \A o \in Range(created) : Count(released, o) = 1
          /\ Range(released) \subseteq Range(created)
C28_Witness ==
    /\ platform = "wayland"
    /\ Failed("createWindow")
    /\ Exited
    /\ created = <<"display", "registry", "xdg_wm_base">>

Reverse(seq) == [i \in 1..Len(seq) |-> seq[Len(seq) + 1 - i]]
Pos(seq, x) == CHOOSE k \in DOMAIN seq : seq[k] = x

\* destroyWindow releases each object at most once however often it is
\* called (a second call on the fields the first one left releases nothing),
\* releases exactly the objects whose field is set, and the display last.
ReleasedOnceDisplayLast ==
    /\ \A o \in Range(released) : Count(released, o) = 1
    /\ Range(released) \subseteq Range(created)
    /\ platform # "macos" =>
          /\ ReleasedBy(platform, FieldsAfter(platform, native)) = <<>>
          /\ Range(ReleasedBy(platform, native)) = native
    /\ "display" \in Range(released) => Last(released) = "display"

\* C29 (as stated): destroyWindow is idempotent, skips what was never created
\* and releases the objects in reverse order of their creation.
C29_ReverseOfCreation ==
    /\ ReleasedOnceDisplayLast
    /\ (platform # "macos" /\ native = {} /\ released # <<>>) => released = Reverse(created)

\* C29 (amended): destroyWindow is idempotent, skips what was never created
\* and releases in the fixed order of its statements; that order is the
\* reverse of the creation order for every two objects except wl_compositor
\* and xdg_wm_base, which are bound in the order the registry announces them.
C29_FixedReleaseOrder ==
    /\ ReleasedOnceDisplayLast
    /\ \A i, j \in DOMAIN released :
          (i < j /\ platform # "macos") =>
              Pos(DestroyWindowOrder(platform), released[i])
                 < Pos(DestroyWindowOrder(platform), released[j])
    /\ \A i, j \in DOMAIN created :
          (i < j /\ {created[i], created[j]} \subseteq Range(released)
                 /\ {created[i], created[j]} # {"compositor", "xdg_wm_base"}) =>
              Pos(released, created[j]) < Pos(released, created[i])
C29_Witness ==
    /\ platform = "wayland"
    /\ created = <<"display", "registry", "xdg_wm_base", "compositor",
                   "surface", "xdg_surface", "xdg_toplevel">>
    /\ released = DestroyWindowOrder("wayland")
    /\ native = {}

\* C30: app.running starts true, goes false only when a close request is
\* handled (in the frame loop or, on Wayland, in createWindow's wait for the
\* first configure event), never goes back to true, and with the flag false
\* no iteration of the frame loop begins.
C30_RunningMonotonic ==
    /\ [](~closeSeen => running)
    /\ [][running' => running]_vars
    /\ [][(running /\ ~running') =>
             (mainPc \in {"loop", "configureWait"} /\ ~closeSeen /\ closeSeen')]_vars
    /\ [](closeSeen => ~running)
    /\ [](~running => ~ENABLED FrameLoop)
C30_Witness ==
    /\ platform = "wayland"
    /\ mainPc = "loop"
    /\ closeSeen
    /\ ~running
    /\ width = 2
\* ---- claims about the Wayland window -------------------------------------------
\* C31: createWindow's wait for the first configure event ends: whenever main
\* is in the wait, createWindow eventually returns.
C31_ConfigureWaitTerminates ==
    (mainPc = "configureWait") ~> Called("createWindow")

\* C32: on Wayland app.width and app.height are positive in every state: a
\* toplevel configure event with a width or height that is not positive
\* leaves both as they are, one with both positive replaces both.
C32_SizePositive ==
    platform = "wayland" =>
        /\ width > 0 /\ height > 0
        /\ \A w, h \in ConfigureSizes :
              LET app == [running |-> running, width |-> width, height |-> height]
                  new == XdgToplevelConfigure(app, w, h)
              IN IF w > 0 /\ h > 0
                 THEN new.width = w /\ new.height = h /\ new.running = running
                 ELSE new = app
C32_Witness ==
    /\ platform = "wayland"
    /\ mainPc = "configureWait"
    /\ width = 1
    /\ height = 2

====
